---- MODULE Spec2Model ----
(***************************************************************************)
(* Model of the two HTTP services of http-mcp-server-mapbox-apis:          *)
(*   - the Assistant Bridge (http-bridge/src/index.js): the process-wide   *)
(*     tool cache, the startup fetch and the POST /api/chat handler with   *)
(*     its tool loop;                                                      *)
(*   - the Gateway (mapbox-mcp-server): the POST /get_directions handler   *)
(*     with its two concurrent upstream GETs, the handlers of the other    *)
(*     five POST endpoints, and the rate limiter both services mount.      *)
(* Every action is one run of the event loop: the code between two awaits. *)
(***************************************************************************)
EXTENDS Integers, Sequences, FiniteSets, TLC

\* ------------------------------------------------------------------------
\* Bounds of the model
\* ------------------------------------------------------------------------

\* largest number of tool rounds the modelled model API asks for in one
\* chat request (the code itself has no cap)
MaxRounds == 2

\* largest number of requests the modelled client sends to one service in
\* one window of the rate limiter
MaxRequests == 102

\* the same, for the specification with concurrent chat requests
MaxRaceRounds == 1

\* ------------------------------------------------------------------------
\* JavaScript values
\* ------------------------------------------------------------------------

\* a JS number, undefined or NaN
Num(n) == [k |-> "num", n |-> n]
Undefined == [k |-> "undefined", n |-> 0]
NaN == [k |-> "NaN", n |-> 0]

\* x || 0
OrZero(x) == IF x.k = "num" /\ x.n # 0 THEN x ELSE Num(0)

\* a + b on numbers: undefined + n and NaN + n are NaN
JsAdd(a, b) == IF a.k = "num" /\ b.k = "num" THEN Num(a.n + b.n) ELSE NaN

\* JSON.stringify of a property value: undefined drops the key, NaN is null
JsonVal(x) ==
  CASE x.k = "num" -> x
    [] x.k = "undefined" -> [k |-> "absent", n |-> 0]
    [] OTHER -> [k |-> "null", n |-> 0]

\* a usage object of the model API, or no usage object at all
Usage(i, o) == [defined |-> TRUE, input_tokens |-> i, output_tokens |-> o]
NoUsage == [defined |-> FALSE, input_tokens |-> Undefined, output_tokens |-> Undefined]

\* res.json of the usage field
JsonUsage(u) ==
  [defined |-> u.defined,
   input_tokens |-> JsonVal(u.input_tokens),
   output_tokens |-> JsonVal(u.output_tokens)]

\* ------------------------------------------------------------------------
\* The Gateway's static tool list and the bridge's view of it
\* ------------------------------------------------------------------------

ToolNames == <<"geocode_forward", "geocode_reverse", "get_directions",
               "get_static_image", "get_route_map", "get_matrix">>

\* const tools = [...]
tools ==
  [i \in 1..Len(ToolNames) |->
     [name |-> ToolNames[i], description |-> <<"description", ToolNames[i]>>,
      inputSchema |-> <<"schema", ToolNames[i]>>]]

\* tool => ({name, description, input_schema: tool.inputSchema})
MapTool(tool) ==
  [name |-> tool.name, description |-> tool.description,
   input_schema |-> tool.inputSchema]

\* mutant: the fetched tools are added to the cache instead of replacing it
LoadedToolsAppended(old, fetched) ==
  old \o [i \in 1..Len(fetched) |-> MapTool(fetched[i])]

\* the assignment of initializeMCPTools on a successful fetch
LoadedTools(old, fetched) == [i \in 1..Len(fetched) |-> MapTool(fetched[i])]

\* ------------------------------------------------------------------------
\* Requests, model responses, errors
\* ------------------------------------------------------------------------

AllReqs == {"r1", "r2"}
ChatReqs == {"r1"}
RaceReqs == {"r1", "r2"}

\* the message field of a chat body
StrMsg(s) == [t |-> "string", v |-> s]
NoMsg == [t |-> "undefined", v |-> ""]
NumMsg == [t |-> "number", v |-> "42"]
Messages == {NoMsg, StrMsg(""), NumMsg, StrMsg("route?")}
RaceMessages == {StrMsg(""), StrMsg("route?")}

\* mutant: only !message, without the typeof test
InvalidMessageFalsyOnly(message) ==
  \/ message.t = "undefined"
  \/ (message.t = "string" /\ message.v = "")

\* !message || typeof message !== 'string'
InvalidMessage(message) ==
  \/ message.t = "undefined"
  \/ (message.t = "string" /\ message.v = "")
  \/ message.t # "string"

\* a message content is a string or a list of blocks
Blocks(list) == [blocks |-> list]
UserMsg(content) == [role |-> "user", content |-> content]
AssistantMsg(content) == [role |-> "assistant", content |-> Blocks(content)]

Histories ==
  {<<>>, <<UserMsg(StrMsg("hello")), AssistantMsg(<<[type |-> "text", text |-> "hi"]>>)>>}
RaceHistories == {<<>>}

Text(s) == [type |-> "text", text |-> s]
ToolUse(id, name) == [type |-> "tool_use", id |-> id, name |-> name, input |-> <<"input", id>>]

\* contents the model API answers with in the given call (1 = first call)
Contents(call) ==
  {<<Text("answer")>>,
   <<Text("looking"), ToolUse(<<call, 1>>, "geocode_forward")>>,
   <<ToolUse(<<call, 1>>, "get_directions"), Text("then"), ToolUse(<<call, 2>>, "no_such_tool")>>}
RaceContents(call) ==
  {<<Text("answer")>>, <<ToolUse(<<call, 1>>, "geocode_forward")>>}

Usages == {NoUsage, Usage(Num(3), Num(2)), Usage(Num(1), Undefined)}
RaceUsages == {Usage(Num(3), Num(2))}

\* content.some(block => block.type === 'tool_use')
HasToolUse(content) == \E i \in 1..Len(content) : content[i].type = "tool_use"

\* a rejected axios call: an HTTP status, or no response at all
HttpError(s) == [kind |-> "status", status |-> s]
Timeout == [kind |-> "timeout", status |-> 0]
NetworkError == [kind |-> "network", status |-> 0]
TypeError == [kind |-> "TypeError", status |-> 0]
\* a resolved axios call
Resolved == [kind |-> "ok", status |-> 200]

ModelErrors == {HttpError(401), HttpError(429), HttpError(500), Timeout}
RaceModelErrors == {HttpError(401), HttpError(429), Timeout}

\* outcomes of a Gateway POST for a tool name; an unknown name hits the
\* Gateway's 404 handler; the error kinds are spread over the known tools
KnownTool(name) == \E i \in 1..Len(ToolNames) : ToolNames[i] = name
ToolOutcomesOf(name) ==
  IF ~KnownTool(name) THEN {HttpError(404)}
  ELSE IF name = "geocode_forward" THEN {Resolved, HttpError(429), Timeout}
  ELSE {Resolved, HttpError(401), NetworkError}
RaceToolOutcomesOf(name) == {Resolved, Timeout}

\* error.message of axios
ErrorMessage(error) ==
  CASE error.kind = "status" -> <<"Request failed with status code", error.status>>
    [] error.kind = "timeout" -> <<"timeout exceeded", 0>>
    [] error.kind = "network" -> <<"Network Error", 0>>
    [] OTHER -> <<"Cannot read properties of undefined", 0>>

\* ------------------------------------------------------------------------
\* State of the bridge
\* ------------------------------------------------------------------------

VARIABLES
  server,           \* "starting" while startServer awaits the first fetch, then "listening"
  availableTools,   \* let availableTools = []
  cacheWrites,      \* history: how often the assignment to availableTools ran
  fetches,          \* history: every GET /tools issued, with the cache's state then
  pc,               \* per chat request: the await the handler is suspended at
  body,             \* per chat request: req.body
  currentMessages,  \* per chat request: messages / currentMessages
  finalResponse,    \* per chat request: finalResponse
  totalUsage,       \* per chat request: totalUsage
  toolResults,      \* per chat request: toolResults of the running handleToolCalls
  blockIdx,         \* per chat request: position of handleToolCalls' for loop
  responses,        \* per chat request: the HTTP responses written to res
  modelCalls,       \* history, per chat request: payloads POSTed to the model API,
                    \* each with the tool cache at the time of the call
  modelReplies,     \* history, per chat request: what the model API answered
  gatewayPosts,     \* history, per chat request: POSTs issued to the Gateway
  postOutcomes,     \* history, per chat request: how each settled POST ended
  catches           \* history, per chat request: errors that reached the catch block

bridgeVars ==
  <<server, availableTools, cacheWrites, fetches, pc, body, currentMessages,
    finalResponse, totalUsage, toolResults, blockIdx, responses, modelCalls,
    modelReplies, gatewayPosts, postOutcomes, catches>>

\* State of the Gateway's get_directions handler
VARIABLES
  dirPc,          \* "idle", "awaitAll" (suspended at Promise.all) or "done"
  dirArgs,        \* the destructured fields of the request
  geojsonGet,     \* the first GET: "none", "pending", "resolved" or "rejected", and its result
  polylineGet,    \* the second GET, likewise
  dirResponses,   \* the HTTP responses written to res
  upstreamGets    \* history: the GETs issued to the directions API

gatewayVars == <<dirPc, dirArgs, geojsonGet, polylineGet, dirResponses, upstreamGets>>

VARIABLES
  dirBody,        \* req.body of the get_directions request
  epPc,           \* position of the handler of one of the other five POST endpoints
  epName,         \* the endpoint that was requested
  epBody,         \* req.body of that request
  epArgs,         \* req.body.arguments || req.body
  epGets,         \* history: URLs of the upstream GETs this handler issued
  epErrors,       \* history: errors caught by this handler's catch block
  epResponses     \* HTTP responses sent for the request, in order

endpointVars == <<dirBody, epPc, epName, epBody, epArgs, epGets, epErrors, epResponses>>

VARIABLES
  hits,           \* per service: the limiter's count for the client IP in the window
  served,         \* history: per service, requests of the window that reached a route
  rejected        \* history: per service, requests of the window the limiter answered

limiterVars == <<hits, served, rejected>>

vars == <<bridgeVars, gatewayVars, endpointVars, limiterVars>>

NoResponse == [content |-> <<>>, usage |-> NoUsage]

BridgeInit ==
  /\ server = "starting"
  /\ availableTools = <<>>
  /\ cacheWrites = 0
  /\ fetches = <<[by |-> "startServer", cacheEmpty |-> TRUE]>>
  /\ pc = [r \in AllReqs |-> "idle"]
  /\ body = [r \in AllReqs |-> [message |-> NoMsg, conversationHistory |-> <<>>]]
  /\ currentMessages = [r \in AllReqs |-> <<>>]
  /\ finalResponse = [r \in AllReqs |-> NoResponse]
  /\ totalUsage = [r \in AllReqs |-> NoUsage]
  /\ toolResults = [r \in AllReqs |-> <<>>]
  /\ blockIdx = [r \in AllReqs |-> 0]
  /\ responses = [r \in AllReqs |-> <<>>]
  /\ modelCalls = [r \in AllReqs |-> <<>>]
  /\ modelReplies = [r \in AllReqs |-> <<>>]
  /\ gatewayPosts = [r \in AllReqs |-> <<>>]
  /\ postOutcomes = [r \in AllReqs |-> <<>>]
  /\ catches = [r \in AllReqs |-> <<>>]

\* ------------------------------------------------------------------------
\* initializeMCPTools and startServer
\* ------------------------------------------------------------------------

\* the body of initializeMCPTools after its await: result is "ok" with the
\* Gateway's tool list, or the rejected GET, which the catch swallows
InitializeMCPTools(result) ==
  IF result = "ok"
    THEN /\ availableTools' = LoadedTools(availableTools, tools)
         /\ cacheWrites' = cacheWrites + 1
    ELSE UNCHANGED <<availableTools, cacheWrites>>

\* startServer: await initializeMCPTools(), then app.listen
StartServer(result) ==
  /\ server = "starting"
  /\ InitializeMCPTools(result)
  /\ server' = "listening"
  /\ UNCHANGED <<fetches, pc, body, currentMessages, finalResponse, totalUsage,
                 toolResults, blockIdx, responses, modelCalls, modelReplies,
                 gatewayPosts, catches,
                 postOutcomes, gatewayVars, endpointVars, limiterVars>>

\* ------------------------------------------------------------------------
\* POST /api/chat
\* ------------------------------------------------------------------------

\* claudePayload: tools and tool_choice only when tools are available
ClaudePayload(messages, cache) ==
  IF Len(cache) > 0
    THEN [messages |-> messages, tools |-> cache, tool_choice |-> "auto"]
    ELSE [messages |-> messages]

\* the payload of the follow-up call
FollowUpPayload(messages, cache) == [messages |-> messages, tools |-> cache]

\* mutant: the catch block answers 500 whatever the error
CatchResponseGeneric(error) ==
  [status |-> 500, error |-> "Failed to process chat message"]

\* the catch block of the handler
CatchResponse(error) ==
  IF error.kind = "status" /\ error.status = 401
    THEN [status |-> 401, error |-> "Invalid API key"]
  ELSE IF error.kind = "status" /\ error.status = 429
    THEN [status |-> 429, error |-> "Rate limit exceeded"]
  ELSE [status |-> 500, error |-> "Failed to process chat message"]

\* mutant: the returned history drops the history the client sent
SuccessResponseNoHistory(b, fr, tu) ==
  [status |-> 200,
   response |-> fr.content,
   conversationHistory |-> <<UserMsg(b.message), AssistantMsg(fr.content)>>,
   usage |-> JsonUsage(tu)]

\* res.json of the success path
SuccessResponse(b, fr, tu) ==
  [status |-> 200,
   response |-> fr.content,
   conversationHistory |->
     b.conversationHistory \o <<UserMsg(b.message), AssistantMsg(fr.content)>>,
   usage |-> JsonUsage(tu)]

\* usage accumulation after a follow-up call; FALSE when it throws
CanAccumulate(tu, u) == u.defined => tu.defined
Accumulate(tu, u) ==
  IF u.defined
    THEN [tu EXCEPT !.input_tokens = JsAdd(@, OrZero(u.input_tokens)),
                    !.output_tokens = JsAdd(@, OrZero(u.output_tokens))]
    ELSE tu

\* mutant: only the first tool_use block of a response is called
NextToolUseFirstOnly(content, from) ==
  IF from = 1 /\ \E i \in 1..Len(content) : content[i].type = "tool_use"
    THEN CHOOSE i \in 1..Len(content) :
           /\ content[i].type = "tool_use"
           /\ \A j \in 1..(i - 1) : content[j].type # "tool_use"
    ELSE 0

\* handleToolCalls' for loop: the next tool_use block at or after position
\* from, 0 when there is none
NextToolUse(content, from) ==
  IF \E i \in from..Len(content) : content[i].type = "tool_use"
    THEN CHOOSE i \in from..Len(content) :
           /\ content[i].type = "tool_use"
           /\ \A j \in from..(i - 1) : content[j].type # "tool_use"
    ELSE 0

\* axios.post(`${MCP_SERVER_URL}/${block.name}`, {arguments: block.input})
GatewayPost(block) ==
  [endpoint |-> block.name, arguments |-> block.input, id |-> block.id]

\* a successful result carries no is_error key, which reads as false
ToolResultOk(block) ==
  [type |-> "tool_result", tool_use_id |-> block.id,
   content |-> <<"json", block.name>>, is_error |-> FALSE]
\* mutant: the error result is not flagged
ToolResultErrorUnflagged(block, error) ==
  [type |-> "tool_result", tool_use_id |-> block.id,
   content |-> <<"Error calling tool", block.name, ErrorMessage(error)>>,
   is_error |-> FALSE]
ToolResultError(block, error) ==
  [type |-> "tool_result", tool_use_id |-> block.id,
   content |-> <<"Error calling tool", block.name, ErrorMessage(error)>>,
   is_error |-> TRUE]

\* an error reaches the catch block: one response, handler finished
Catch(r, error) ==
  /\ responses' = [responses EXCEPT ![r] = Append(@, CatchResponse(error))]
  /\ catches' = [catches EXCEPT ![r] = Append(@, error)]
  /\ pc' = [pc EXCEPT ![r] = "done"]

\* the handler from the top of the try block to the first model call
SendFirstCall(r, b, cache) ==
  LET messages == b.conversationHistory \o <<UserMsg(b.message)>>
  IN /\ currentMessages' = [currentMessages EXCEPT ![r] = messages]
     /\ modelCalls' = [modelCalls EXCEPT ![r] =
          Append(@, [payload |-> ClaudePayload(messages, cache), cache |-> cache])]
     /\ pc' = [pc EXCEPT ![r] = "awaitClaude"]

\* the while test on a model response: start a tool round or answer 200
AfterModelResponse(r, fr, tu) ==
  IF HasToolUse(fr.content)
    THEN LET i == NextToolUse(fr.content, 1)
         IN /\ toolResults' = [toolResults EXCEPT ![r] = <<>>]
            /\ blockIdx' = [blockIdx EXCEPT ![r] = i]
            /\ gatewayPosts' = [gatewayPosts EXCEPT ![r] = Append(@, GatewayPost(fr.content[i]))]
            /\ pc' = [pc EXCEPT ![r] = "awaitTool"]
            /\ UNCHANGED <<responses, catches>>
    ELSE /\ responses' = [responses EXCEPT ![r] = Append(@, SuccessResponse(body[r], fr, tu))]
         /\ pc' = [pc EXCEPT ![r] = "done"]
         /\ UNCHANGED <<toolResults, blockIdx, gatewayPosts, catches>>

\* mutant: the catalog is fetched on every chat request
NeedsFetchAlways(cache) == TRUE

\* availableTools.length === 0
NeedsFetch(cache) == Len(cache) = 0

\* mutant: the 400 answer is sent without return, the handler goes on
ChatRequestNoReturn(r, message, conversationHistory) ==
  LET b == [message |-> message, conversationHistory |-> conversationHistory]
  IN /\ server = "listening"
     /\ pc[r] = "idle"
     /\ body' = [body EXCEPT ![r] = b]
     /\ responses' = IF InvalidMessage(message)
                       THEN [responses EXCEPT ![r] =
                               Append(@, [status |-> 400,
                                          error |-> "Message is required and must be a string"])]
                       ELSE responses
     /\ IF NeedsFetch(availableTools)
          THEN /\ fetches' = Append(fetches, [by |-> r, cacheEmpty |-> availableTools = <<>>])
               /\ pc' = [pc EXCEPT ![r] = "awaitTools"]
               /\ UNCHANGED <<currentMessages, modelCalls>>
          ELSE /\ SendFirstCall(r, b, availableTools)
               /\ UNCHANGED fetches
     /\ UNCHANGED <<server, availableTools, cacheWrites, finalResponse, totalUsage,
                    toolResults, blockIdx, modelReplies, gatewayPosts, catches,
                    postOutcomes, gatewayVars, endpointVars, limiterVars>>

\* a chat request arrives: validation, then the lazy re-fetch or the first
\* model call
ChatRequest(r, message, conversationHistory) ==
  LET b == [message |-> message, conversationHistory |-> conversationHistory]
  IN /\ server = "listening"
     /\ pc[r] = "idle"
     /\ body' = [body EXCEPT ![r] = b]
     /\ IF InvalidMessage(message)
          THEN /\ responses' = [responses EXCEPT ![r] =
                    Append(@, [status |-> 400,
                               error |-> "Message is required and must be a string"])]
               /\ pc' = [pc EXCEPT ![r] = "done"]
               /\ UNCHANGED <<fetches, currentMessages, modelCalls>>
          ELSE IF NeedsFetch(availableTools)
            THEN /\ fetches' = Append(fetches, [by |-> r, cacheEmpty |-> availableTools = <<>>])
                 /\ pc' = [pc EXCEPT ![r] = "awaitTools"]
                 /\ UNCHANGED <<responses, currentMessages, modelCalls>>
            ELSE /\ SendFirstCall(r, b, availableTools)
                 /\ UNCHANGED <<responses, fetches>>
     /\ UNCHANGED <<server, availableTools, cacheWrites, finalResponse, totalUsage,
                    toolResults, blockIdx, modelReplies, gatewayPosts, catches,
                 postOutcomes, gatewayVars, endpointVars, limiterVars>>

\* the awaited initializeMCPTools of a chat request completes
ToolsFetched(r, result) ==
  /\ pc[r] = "awaitTools"
  /\ InitializeMCPTools(result)
  /\ SendFirstCall(r, body[r], availableTools')
  /\ UNCHANGED <<server, fetches, body, finalResponse, totalUsage, toolResults,
                 blockIdx, responses, modelReplies, gatewayPosts, catches,
                 postOutcomes, gatewayVars, endpointVars, limiterVars>>

\* the first model call resolves
ClaudeResponse(r, data) ==
  /\ pc[r] = "awaitClaude"
  /\ modelReplies' = [modelReplies EXCEPT ![r] = Append(@, [ok |-> TRUE, data |-> data])]
  /\ finalResponse' = [finalResponse EXCEPT ![r] = data]
  /\ totalUsage' = [totalUsage EXCEPT ![r] = data.usage]
  /\ AfterModelResponse(r, data, data.usage)
  /\ UNCHANGED <<server, availableTools, cacheWrites, fetches, body,
                 currentMessages, modelCalls,
                 postOutcomes, gatewayVars, endpointVars, limiterVars>>

\* the first or a follow-up model call rejects
ModelCallFails(r, error) ==
  /\ pc[r] \in {"awaitClaude", "awaitFollowUp"}
  /\ modelReplies' = [modelReplies EXCEPT ![r] = Append(@, [ok |-> FALSE, error |-> error])]
  /\ Catch(r, error)
  /\ UNCHANGED <<server, availableTools, cacheWrites, fetches, body,
                 currentMessages, finalResponse, totalUsage, toolResults,
                 blockIdx, modelCalls, gatewayPosts,
                 postOutcomes, gatewayVars, endpointVars, limiterVars>>

\* one Gateway POST of handleToolCalls settles: outcome is Resolved or the error
ToolCallSettles(r, outcome) ==
  LET content == finalResponse[r].content
      block == content[blockIdx[r]]
      result == IF outcome.kind = "ok" THEN ToolResultOk(block)
                ELSE ToolResultError(block, outcome)
      results == Append(toolResults[r], result)
      next == NextToolUse(content, blockIdx[r] + 1)
      messages == currentMessages[r] \o <<AssistantMsg(content), UserMsg(Blocks(results))>>
  IN /\ pc[r] = "awaitTool"
     /\ postOutcomes' = [postOutcomes EXCEPT ![r] = Append(@, outcome)]
     /\ toolResults' = [toolResults EXCEPT ![r] = results]
     /\ IF next # 0
          THEN /\ blockIdx' = [blockIdx EXCEPT ![r] = next]
               /\ gatewayPosts' = [gatewayPosts EXCEPT ![r] = Append(@, GatewayPost(content[next]))]
               /\ UNCHANGED <<pc, currentMessages, modelCalls>>
          ELSE /\ currentMessages' = [currentMessages EXCEPT ![r] = messages]
               /\ modelCalls' = [modelCalls EXCEPT ![r] =
                    Append(@, [payload |-> FollowUpPayload(messages, availableTools),
                               cache |-> availableTools])]
               /\ pc' = [pc EXCEPT ![r] = "awaitFollowUp"]
               /\ UNCHANGED <<blockIdx, gatewayPosts>>
     /\ UNCHANGED <<server, availableTools, cacheWrites, fetches, body,
                    finalResponse, totalUsage, responses, modelReplies, catches,
                 gatewayVars, endpointVars, limiterVars>>

\* a follow-up model call resolves
FollowUpResponse(r, data) ==
  /\ pc[r] = "awaitFollowUp"
  /\ modelReplies' = [modelReplies EXCEPT ![r] = Append(@, [ok |-> TRUE, data |-> data])]
  /\ finalResponse' = [finalResponse EXCEPT ![r] = data]
  /\ IF CanAccumulate(totalUsage[r], data.usage)
       THEN /\ totalUsage' = [totalUsage EXCEPT ![r] = Accumulate(@, data.usage)]
            /\ AfterModelResponse(r, data, Accumulate(totalUsage[r], data.usage))
       ELSE /\ Catch(r, TypeError)
            /\ UNCHANGED <<totalUsage, toolResults, blockIdx, gatewayPosts>>
  /\ UNCHANGED <<server, availableTools, cacheWrites, fetches, body,
                 currentMessages, modelCalls,
                 postOutcomes, gatewayVars, endpointVars, limiterVars>>

\* ------------------------------------------------------------------------
\* Specifications of the bridge
\* ------------------------------------------------------------------------

FetchResults == {"ok", "failed"}

\* what the model API may answer to the call-th call of a request, with at
\* most max tool rounds
Replies(call, max, contents, usages) ==
  {[content |-> c, usage |-> u] :
     c \in {d \in contents : HasToolUse(d) => call <= max}, u \in usages}

\* the tool_use block whose Gateway POST request r is waiting for
PendingBlock(r) == finalResponse[r].content[blockIdx[r]]

\* ------------------------------------------------------------------------
\* The Gateway: POST /get_directions
\* ------------------------------------------------------------------------

\* a rejected upstream GET; upstreamMessage is error.response?.data?.message,
\* "" when there is none
UpstreamError(kind, status, upstreamMessage) ==
  [kind |-> kind, status |-> status, upstreamMessage |-> upstreamMessage]

UpstreamErrors ==
  {UpstreamError("status", 422, "Coordinate is invalid"),
   UpstreamError("status", 401, ""),
   UpstreamError("network", 0, "")}

\* error.response?.data?.message || error.message
ErrorText(error) ==
  IF error.upstreamMessage # "" THEN <<error.upstreamMessage, 0>>
  ELSE ErrorMessage(error)

\* the catch block of a Gateway handler
GatewayCatchResponse(error) ==
  [status |-> 500, success |-> FALSE, error |-> ErrorText(error)]

\* a request body: its arguments property (when truthy) and its other
\* properties
ArgumentsBody(arguments, top) ==
  [hasArguments |-> TRUE, arguments |-> arguments, top |-> top]
TopLevelBody(top) ==
  [hasArguments |-> FALSE, arguments |-> top, top |-> top]

\* mutant: the top level of the body is always read
BodyArgsTopLevel(b) == b.top

\* req.body.arguments || req.body
BodyArgs(b) == IF b.hasArguments THEN b.arguments ELSE b.top

NoCoordinates == [defined |-> FALSE, list |-> <<>>]
Coordinates(list) == [defined |-> TRUE, list |-> list]

\* destructuring defaults: profile = 'driving', steps = true, overview = 'full'
Default(v, d) == IF v = "undefined" THEN d ELSE v

DirBodies ==
  {[coordinates |-> c, profile |-> p, steps |-> "undefined", overview |-> o] :
     c \in {NoCoordinates,
            Coordinates(<<<<-74, 40>>, <<-73, 41>>>>),
            Coordinates(<<<<-74, 40>>, <<-73, 41>>, <<-72, 42>>>>)},
     p \in {"undefined", "walking"},
     o \in {"undefined", "simplified"}}

\* the two request URLs
GeojsonUrl(args) ==
  [profile |-> Default(args.profile, "driving"),
   coordinateString |-> args.coordinates.list,
   geometries |-> "geojson",
   steps |-> Default(args.steps, "true"),
   overview |-> Default(args.overview, "full")]
PolylineUrl(args) ==
  [profile |-> Default(args.profile, "driving"),
   coordinateString |-> args.coordinates.list,
   geometries |-> "polyline",
   steps |-> "false",
   overview |-> "full"]

\* what the directions API answers
GeojsonData ==
  {[routes |-> <<>>, waypoints |-> <<>>, code |-> "NoRoute"],
   [routes |-> <<"route1">>, waypoints |-> <<"w1", "w2">>, code |-> "Ok"],
   [routes |-> <<"route1", "route2">>, waypoints |-> <<"w1", "w2">>, code |-> "Ok"]}
PolylineData ==
  {[hasRoutes |-> FALSE, routes |-> <<>>],
   [hasRoutes |-> TRUE, routes |-> <<>>],
   [hasRoutes |-> TRUE, routes |-> <<[geometry |-> "polyA"]>>],
   [hasRoutes |-> TRUE, routes |-> <<[geometry |-> "polyB"], [geometry |-> "polyC"]>>]}

NoGet == [state |-> "none"]
Pending == [state |-> "pending"]
ResolvedGet(data) == [state |-> "resolved", data |-> data]
RejectedGet(error) == [state |-> "rejected", error |-> error]

\* mutant: the polyline is never added to the result
DirectionsResultNoPolyline(geojson, polyline) ==
  [status |-> 200, success |-> TRUE, routes |-> geojson.routes,
   waypoints |-> geojson.waypoints, code |-> geojson.code]

\* result = {success, routes, waypoints, code} and the optional polyline
DirectionsResult(geojson, polyline) ==
  LET result == [status |-> 200, success |-> TRUE, routes |-> geojson.routes,
                 waypoints |-> geojson.waypoints, code |-> geojson.code]
  IN IF polyline.hasRoutes /\ Len(polyline.routes) > 0
       THEN [status |-> 200, success |-> TRUE, routes |-> geojson.routes,
             waypoints |-> geojson.waypoints, code |-> geojson.code,
             polyline |-> polyline.routes[1].geometry]
       ELSE result

NoDirFields ==
  [coordinates |-> NoCoordinates, profile |-> "undefined",
   steps |-> "undefined", overview |-> "undefined"]

GatewayInit ==
  /\ dirPc = "idle"
  /\ dirBody = TopLevelBody(NoDirFields)
  /\ dirArgs = NoDirFields
  /\ geojsonGet = NoGet
  /\ polylineGet = NoGet
  /\ dirResponses = <<>>
  /\ upstreamGets = <<>>

\* the handler up to the await: the fields are read from
\* req.body.arguments || req.body, coordinates.map throws on a missing field,
\* otherwise both GETs are issued in the same turn
GetDirections(b) ==
  LET args == BodyArgs(b)
  IN /\ dirPc = "idle"
     /\ dirBody' = b
     /\ dirArgs' = args
     /\ IF ~args.coordinates.defined
          THEN /\ dirResponses' = Append(dirResponses,
                    GatewayCatchResponse(UpstreamError("TypeError", 0, "")))
               /\ dirPc' = "done"
               /\ UNCHANGED <<geojsonGet, polylineGet, upstreamGets>>
          ELSE /\ geojsonGet' = Pending
               /\ polylineGet' = Pending
               /\ upstreamGets' = upstreamGets \o <<GeojsonUrl(args), PolylineUrl(args)>>
               /\ dirPc' = "awaitAll"
               /\ UNCHANGED dirResponses
  /\ UNCHANGED <<bridgeVars, epPc, epName, epBody, epArgs, epGets, epErrors, epResponses,
                 limiterVars>>

\* Promise.all after one of its two promises settled: it rejects with the
\* first rejection and resolves when both have resolved
AfterSettle(geojson, polyline, settled) ==
  IF dirPc # "awaitAll"
    THEN UNCHANGED <<dirPc, dirResponses>>
  ELSE IF settled.state = "rejected"
    THEN /\ dirResponses' = Append(dirResponses, GatewayCatchResponse(settled.error))
         /\ dirPc' = "done"
  ELSE IF geojson.state = "resolved" /\ polyline.state = "resolved"
    THEN /\ dirResponses' = Append(dirResponses, DirectionsResult(geojson.data, polyline.data))
         /\ dirPc' = "done"
  ELSE UNCHANGED <<dirPc, dirResponses>>

\* axios.get(geojsonUrl) settles
GeojsonSettles(outcome) ==
  /\ geojsonGet.state = "pending"
  /\ geojsonGet' = outcome
  /\ AfterSettle(outcome, polylineGet, outcome)
  /\ UNCHANGED <<dirArgs, polylineGet, upstreamGets, bridgeVars, endpointVars, limiterVars>>

\* axios.get(polylineUrl) settles
PolylineSettles(outcome) ==
  /\ polylineGet.state = "pending"
  /\ polylineGet' = outcome
  /\ AfterSettle(geojsonGet, outcome, outcome)
  /\ UNCHANGED <<dirArgs, geojsonGet, upstreamGets, bridgeVars, endpointVars, limiterVars>>

GetOutcomes(data) ==
  {ResolvedGet(d) : d \in data} \cup {RejectedGet(e) : e \in UpstreamErrors}

\* ------------------------------------------------------------------------
\* The Gateway: the other five POST endpoints
\* ------------------------------------------------------------------------

\* JSON values of a request body
Str(s) == [k |-> "str", s |-> s]
Null == [k |-> "null"]
Arr(a) == [k |-> "arr", a |-> a]

\* if (v)
Truthy(v) ==
  /\ v.k \notin {"undefined", "null", "NaN"}
  /\ ~(v.k = "str" /\ v.s = "")
  /\ ~(v.k = "num" /\ v.n = 0)

\* a destructuring default applies to undefined only
DefaultTo(v, d) == IF v.k = "undefined" THEN d ELSE v

\* the fields the five handlers destructure; a missing field is undefined
FieldNames ==
  {"query", "limit", "country", "longitude", "latitude", "types",
   "style", "width", "height", "zoom", "center", "bbox", "markers",
   "coordinates", "route_polyline", "profile", "sources", "destinations",
   "annotations"}
NoFields == [f \in FieldNames |-> Undefined]

\* what one turn of a handler ends with
Throw(error) == [kind |-> "throw", error |-> error]
Get(url) == [kind |-> "get", url |-> url]
Respond(response) == [kind |-> "respond", response |-> response]

\* a TypeError raised by the handler's own code
LocalError == UpstreamError("TypeError", 0, "")

\* mutant: a caught error is answered with 200 and an empty result
GatewayCatchLocalAsSuccess(error) ==
  [status |-> 200, success |-> TRUE, error |-> ErrorMessage(error)]

\* the catch block of get_static_image and get_route_map: error.message
GatewayCatchLocal(error) ==
  [status |-> 500, success |-> FALSE, error |-> ErrorMessage(error)]

\* encodeURIComponent(v), `${v}` and v.toString()
EncodeURIComponent(v) == [k |-> "encoded", of |-> v]
toString(v) == [k |-> "string", of |-> v]

\* --- geocode_forward ---

ForwardUrl(args) ==
  [api |-> "geocoding/v5/mapbox.places",
   path |-> EncodeURIComponent(args.query),
   limit |-> toString(DefaultTo(args.limit, Num(5))),
   country |-> IF Truthy(args.country) THEN args.country ELSE Undefined]

\* limit.toString() throws on null
GeocodeForward(args) ==
  IF DefaultTo(args.limit, Num(5)).k = "null"
    THEN Throw(LocalError)
    ELSE Get(ForwardUrl(args))

\* the six fields copied from every feature
MapFeature(feature) ==
  [place_name |-> feature.place_name, center |-> feature.center,
   place_type |-> feature.place_type, relevance |-> feature.relevance,
   properties |-> feature.properties, context |-> feature.context]

\* response.data.features.map(...) throws when the answer has no features
GeocodeResult(data) ==
  IF ~data.hasFeatures
    THEN Throw(LocalError)
    ELSE Respond([status |-> 200, success |-> TRUE,
                  results |-> [i \in 1..Len(data.features) |-> MapFeature(data.features[i])],
                  total |-> Len(data.features)])

\* --- geocode_reverse ---

ReverseUrl(args) ==
  [api |-> "geocoding/v5/mapbox.places",
   path |-> <<toString(args.longitude), toString(args.latitude)>>,
   types |-> IF Truthy(args.types) /\ Len(args.types.a) > 0
               THEN args.types.a ELSE <<>>]

\* types.join throws when types is a non-empty string
GeocodeReverse(args) ==
  IF Truthy(args.types) /\ args.types.k # "arr"
    THEN Throw(LocalError)
    ELSE Get(ReverseUrl(args))

\* --- get_matrix ---

\* sources.join(';') when sources is given
Joined(v) == IF Truthy(v) THEN v.a ELSE <<>>

MatrixUrl(args) ==
  [api |-> "directions-matrix/v1/mapbox",
   profile |-> DefaultTo(args.profile, Str("driving")),
   coordinateString |-> args.coordinates.a,
   annotations |-> DefaultTo(args.annotations, Arr(<<"duration", "distance">>)).a,
   sources |-> Joined(args.sources),
   destinations |-> Joined(args.destinations)]

\* coordinates.map, annotations.join, sources.join and destinations.join
\* throw on a value that is no array
GetMatrix(args) ==
  IF \/ args.coordinates.k # "arr"
     \/ DefaultTo(args.annotations, Arr(<<>>)).k # "arr"
     \/ (Truthy(args.sources) /\ args.sources.k # "arr")
     \/ (Truthy(args.destinations) /\ args.destinations.k # "arr")
    THEN Throw(LocalError)
    ELSE Get(MatrixUrl(args))

MatrixResult(data) ==
  Respond([status |-> 200, success |-> TRUE, durations |-> data.durations,
           distances |-> data.distances, sources |-> data.sources,
           destinations |-> data.destinations, code |-> data.code])

\* --- get_static_image ---

Marker(size, label, color, longitude, latitude) ==
  [size |-> size, label |-> label, color |-> color,
   longitude |-> longitude, latitude |-> latitude]

\* pin-{size || 'small'}[-{label}]+{color || 'red'}({longitude},{latitude})
MarkerStr(marker) ==
  [pin |-> IF Truthy(marker.size) THEN marker.size ELSE Str("small"),
   label |-> IF Truthy(marker.label) THEN marker.label ELSE Undefined,
   color |-> IF Truthy(marker.color) THEN marker.color ELSE Str("red"),
   at |-> <<marker.longitude, marker.latitude>>]

\* the segment for the markers, none for an empty list
MarkerSegment(markers) ==
  IF Len(markers.a) > 0
    THEN <<[seg |-> "overlay",
            items |-> [i \in 1..Len(markers.a) |-> MarkerStr(markers.a[i])]]>>
    ELSE <<>>

\* mutant: center and zoom are preferred to bbox
ViewportSegmentCenterFirst(bbox, center, zoom) ==
  IF Truthy(center) /\ zoom.k # "undefined"
    THEN <<[seg |-> "center", center |-> center.a, zoom |-> zoom]>>
  ELSE IF Truthy(bbox)
    THEN <<[seg |-> "bbox", bbox |-> bbox.a]>>
  ELSE <<>>

\* if (bbox) ... else if (center && zoom !== undefined) ...
ViewportSegment(bbox, center, zoom) ==
  IF Truthy(bbox)
    THEN <<[seg |-> "bbox", bbox |-> bbox.a]>>
  ELSE IF Truthy(center) /\ zoom.k # "undefined"
    THEN <<[seg |-> "center", center |-> center.a, zoom |-> zoom]>>
  ELSE <<>>

SizeSegment(width, height) == [seg |-> "size", width |-> width, height |-> height]
TokenSegment == [seg |-> "access_token"]

StaticImageUrl(args) ==
  <<[seg |-> "static", style |-> DefaultTo(args.style, Str("mapbox/streets-v12"))]>>
  \o MarkerSegment(DefaultTo(args.markers, Arr(<<>>)))
  \o ViewportSegment(args.bbox, args.center, args.zoom)
  \o <<SizeSegment(DefaultTo(args.width, Num(600)), DefaultTo(args.height, Num(400))),
       TokenSegment>>

\* markers.length, markers.map, bbox.join and center.join throw on a value
\* that has no such member; no request leaves the Gateway
GetStaticImage(args) ==
  LET markers == DefaultTo(args.markers, Arr(<<>>))
  IN IF \/ markers.k = "null"
        \/ (markers.k = "str" /\ markers.s # "")
        \/ (Truthy(args.bbox) /\ args.bbox.k # "arr")
        \/ (~Truthy(args.bbox) /\ Truthy(args.center) /\ args.zoom.k # "undefined"
            /\ args.center.k # "arr")
       THEN Throw(LocalError)
       ELSE Respond([status |-> 200, success |-> TRUE,
                     image_url |-> StaticImageUrl(args),
                     width |-> DefaultTo(args.width, Num(600)),
                     height |-> DefaultTo(args.height, Num(400))])

\* --- get_route_map ---

RECURSIVE Min(_)
Min(list) ==
  IF Len(list) = 1 THEN list[1]
  ELSE LET rest == Min(Tail(list)) IN IF list[1] < rest THEN list[1] ELSE rest
RECURSIVE Max(_)
Max(list) ==
  IF Len(list) = 1 THEN list[1]
  ELSE LET rest == Max(Tail(list)) IN IF list[1] > rest THEN list[1] ELSE rest

\* mutant: the box is shrunk by the padding
BoundingBoxShrunk(coordinates) ==
  LET lons == [i \in 1..Len(coordinates) |-> coordinates[i][1]]
      lats == [i \in 1..Len(coordinates) |-> coordinates[i][2]]
  IN <<10 * Min(lons) + (Max(lons) - Min(lons)),
       10 * Min(lats) + (Max(lats) - Min(lats)),
       10 * Max(lons) - (Max(lons) - Min(lons)),
       10 * Max(lats) - (Max(lats) - Min(lats))>>

\* [minLon - lonPadding, minLat - latPadding, maxLon + lonPadding,
\* maxLat + latPadding] with padding = span * 0.1, in tenths of a degree
BoundingBox(coordinates) ==
  LET lons == [i \in 1..Len(coordinates) |-> coordinates[i][1]]
      lats == [i \in 1..Len(coordinates) |-> coordinates[i][2]]
  IN <<10 * Min(lons) - (Max(lons) - Min(lons)),
       10 * Min(lats) - (Max(lats) - Min(lats)),
       10 * Max(lons) + (Max(lons) - Min(lons)),
       10 * Max(lats) + (Max(lats) - Min(lats))>>

\* the path overlay (when route_polyline is given) and the two pins
RouteOverlay(args) ==
  LET coordinates == args.coordinates.a
      pins == <<[pin |-> "s-a", color |-> "00ff00", at |-> coordinates[1]],
                [pin |-> "s-b", color |-> "ff0000", at |-> coordinates[Len(coordinates)]]>>
  IN [seg |-> "overlay",
      items |-> IF Truthy(args.route_polyline)
                  THEN <<[path |-> EncodeURIComponent(args.route_polyline)]>> \o pins
                  ELSE pins]

RouteMapUrl(args) ==
  <<[seg |-> "static", style |-> DefaultTo(args.style, Str("mapbox/streets-v12"))],
    RouteOverlay(args),
    [seg |-> "bbox", bbox |-> BoundingBox(args.coordinates.a)],
    SizeSegment(DefaultTo(args.width, Num(800)), DefaultTo(args.height, Num(600))),
    TokenSegment>>

\* coordinates[0] of a missing field and startCoord[0] of an empty list throw
GetRouteMap(args) ==
  IF args.coordinates.k # "arr" \/ Len(args.coordinates.a) = 0
    THEN Throw(LocalError)
    ELSE LET coordinates == args.coordinates.a
         IN Respond([status |-> 200, success |-> TRUE,
                     image_url |-> RouteMapUrl(args),
                     width |-> DefaultTo(args.width, Num(800)),
                     height |-> DefaultTo(args.height, Num(600)),
                     start_coordinates |-> coordinates[1],
                     end_coordinates |-> coordinates[Len(coordinates)],
                     bounding_box |-> BoundingBox(coordinates)])

\* --- the handlers as steps ---

EndpointInit ==
  /\ epPc = "idle"
  /\ epName = "none"
  /\ epBody = TopLevelBody(NoFields)
  /\ epArgs = NoFields
  /\ epGets = <<>>
  /\ epErrors = <<>>
  /\ epResponses = <<>>

\* the catch block of the handler of endpoint name
EndpointCatch(name, error) ==
  IF name \in {"get_static_image", "get_route_map"}
    THEN GatewayCatchLocal(error)
    ELSE GatewayCatchResponse(error)

\* the effect of a turn of the handler of endpoint name
Turn(name, turn) ==
  CASE turn.kind = "throw" ->
         /\ epErrors' = Append(epErrors, turn.error)
         /\ epResponses' = Append(epResponses, EndpointCatch(name, turn.error))
         /\ epPc' = "done"
         /\ UNCHANGED epGets
    [] turn.kind = "get" ->
         /\ epGets' = Append(epGets, turn.url)
         /\ epPc' = "awaitGet"
         /\ UNCHANGED <<epErrors, epResponses>>
    [] turn.kind = "respond" ->
         /\ epResponses' = Append(epResponses, turn.response)
         /\ epPc' = "done"
         /\ UNCHANGED <<epGets, epErrors>>

\* the handler of endpoint name up to its await or its response
Serve(name, b, turn) ==
  /\ epPc = "idle"
  /\ epName' = name
  /\ epBody' = b
  /\ epArgs' = BodyArgs(b)
  /\ Turn(name, turn)
  /\ UNCHANGED <<dirBody, bridgeVars, gatewayVars, limiterVars>>

GeocodeForwardRequest(b) == Serve("geocode_forward", b, GeocodeForward(BodyArgs(b)))
GeocodeReverseRequest(b) == Serve("geocode_reverse", b, GeocodeReverse(BodyArgs(b)))
GetMatrixRequest(b) == Serve("get_matrix", b, GetMatrix(BodyArgs(b)))
GetStaticImageRequest(b) == Serve("get_static_image", b, GetStaticImage(BodyArgs(b)))
GetRouteMapRequest(b) == Serve("get_route_map", b, GetRouteMap(BodyArgs(b)))

\* the code after await axios.get(url)
AfterGet(name, data) ==
  IF name = "get_matrix" THEN MatrixResult(data) ELSE GeocodeResult(data)

\* the handler's one upstream GET settles
UpstreamGetSettles(outcome) ==
  /\ epPc = "awaitGet"
  /\ Turn(epName, IF outcome.state = "rejected"
                    THEN Throw(outcome.error)
                    ELSE AfterGet(epName, outcome.data))
  /\ UNCHANGED <<epName, epBody, epArgs, dirBody, bridgeVars, gatewayVars, limiterVars>>

\* --- requests and upstream answers of the model ---

With(fields, name, value) == [fields EXCEPT ![name] = value]

Berlin == With(NoFields, "query", Str("Berlin"))
Paris == With(NoFields, "query", Str("Paris"))
ForwardBodies ==
  {TopLevelBody(NoFields),
   TopLevelBody(Berlin),
   TopLevelBody(With(With(Berlin, "limit", Num(3)), "country", Str("de"))),
   TopLevelBody(With(Berlin, "limit", Null)),
   ArgumentsBody(Berlin, With(Paris, "limit", Num(3))),
   ArgumentsBody(NoFields, Paris)}

Point(lon, lat) == With(With(NoFields, "longitude", Num(lon)), "latitude", Num(lat))
ReverseBodies ==
  {TopLevelBody(Point(-74, 40)),
   TopLevelBody(With(Point(-74, 40), "types", Arr(<<"place", "poi">>))),
   TopLevelBody(With(Point(-74, 40), "types", Arr(<<>>))),
   TopLevelBody(With(Point(-74, 40), "types", Str("place"))),
   ArgumentsBody(Point(-73, 41), With(Point(-74, 40), "types", Arr(<<"place">>)))}

TwoPoints == With(NoFields, "coordinates", Arr(<<<<-74, 40>>, <<-73, 41>>>>))
ThreePoints == With(NoFields, "coordinates", Arr(<<<<-73, 41>>, <<-75, 39>>, <<-74, 40>>>>))
OnePoint == With(NoFields, "coordinates", Arr(<<<<-74, 40>>>>))
MatrixBodies ==
  {TopLevelBody(NoFields),
   TopLevelBody(TwoPoints),
   TopLevelBody(With(With(With(With(ThreePoints, "profile", Str("walking")),
                               "sources", Arr(<<0>>)), "destinations", Arr(<<1, 2>>)),
                     "annotations", Arr(<<"duration">>))),
   TopLevelBody(With(TwoPoints, "sources", Str("0"))),
   ArgumentsBody(TwoPoints, With(ThreePoints, "profile", Str("walking")))}

Box == With(NoFields, "bbox", Arr(<<-74, 40, -73, 41>>))
Center(zoom) == With(With(NoFields, "center", Arr(<<-74, 40>>)), "zoom", zoom)
StaticImageBodies ==
  {TopLevelBody(NoFields),
   TopLevelBody(Box),
   TopLevelBody(With(With(Box, "center", Arr(<<-74, 40>>)), "zoom", Num(12))),
   TopLevelBody(Center(Num(0))),
   TopLevelBody(With(With(Center(Num(12)), "width", Num(300)), "height", Num(200))),
   TopLevelBody(Center(Undefined)),
   TopLevelBody(With(Center(Num(12)), "markers",
                     Arr(<<Marker(Undefined, Str("a"), Undefined, Num(-74), Num(40)),
                           Marker(Str("large"), Undefined, Str("00f"), Num(-73), Num(41))>>))),
   TopLevelBody(With(NoFields, "markers", Null)),
   TopLevelBody(With(NoFields, "bbox", Str("-74,40,-73,41"))),
   ArgumentsBody(Center(Num(0)), With(Box, "width", Num(300)))}

RouteMapBodies ==
  {TopLevelBody(NoFields),
   TopLevelBody(With(NoFields, "coordinates", Arr(<<>>))),
   TopLevelBody(OnePoint),
   TopLevelBody(TwoPoints),
   TopLevelBody(ThreePoints),
   TopLevelBody(With(With(TwoPoints, "route_polyline", Str("_p~iF~ps|U")), "width", Num(400))),
   ArgumentsBody(TwoPoints, With(ThreePoints, "width", Num(400)))}

DirRequestBodies ==
  {TopLevelBody(NoDirFields),
   TopLevelBody([NoDirFields EXCEPT !.coordinates = Coordinates(<<<<-74, 40>>, <<-73, 41>>>>)]),
   ArgumentsBody([NoDirFields EXCEPT !.coordinates = Coordinates(<<<<-74, 40>>, <<-73, 41>>>>)],
                 [NoDirFields EXCEPT !.coordinates = Coordinates(<<<<-72, 42>>, <<-73, 41>>>>),
                                     !.profile = "walking"]),
   ArgumentsBody(NoDirFields,
                 [NoDirFields EXCEPT !.coordinates = Coordinates(<<<<-74, 40>>, <<-73, 41>>>>)])}

Feature(name) ==
  [id |-> name, place_name |-> name, center |-> <<-74, 40>>, place_type |-> <<"place">>,
   relevance |-> 1, properties |-> "properties", context |-> "context"]
GeocodeData ==
  {[hasFeatures |-> FALSE, features |-> <<>>],
   [hasFeatures |-> TRUE, features |-> <<>>],
   [hasFeatures |-> TRUE, features |-> <<Feature("Berlin"), Feature("Berlin, NH")>>]}
MatrixData ==
  {[durations |-> <<<<0, 10>>, <<10, 0>>>>, distances |-> <<<<0, 7>>, <<7, 0>>>>,
    sources |-> <<"s1", "s2">>, destinations |-> <<"d1", "d2">>, code |-> "Ok"],
   [durations |-> "undefined", distances |-> "undefined",
    sources |-> "undefined", destinations |-> "undefined", code |-> "NoRoute"]}
EndpointData(name) == IF name = "get_matrix" THEN MatrixData ELSE GeocodeData

\* ------------------------------------------------------------------------
\* The rate limiter of both services
\* ------------------------------------------------------------------------

Services == {"bridge", "gateway"}

\* max: 100, the limit of each IP per window
max == 100

\* app.use('/api/', limiter): the path the limiter is mounted at
LimiterMount == <<"api">>

\* the routes with a request handler, as path segments
RequestRoutes(service) ==
  IF service = "bridge"
    THEN {<<"api", "chat">>}
    ELSE {<<"geocode_forward">>, <<"geocode_reverse">>, <<"get_directions">>,
          <<"get_static_image">>, <<"get_route_map">>, <<"get_matrix">>}

\* a middleware mounted at a path sees the requests whose path starts with it
UnderMount(path) ==
  /\ Len(path) >= Len(LimiterMount)
  /\ SubSeq(path, 1, Len(LimiterMount)) = LimiterMount

LimiterInit ==
  /\ hits = [s \in Services |-> 0]
  /\ served = [s \in Services |-> 0]
  /\ rejected = [s \in Services |-> 0]

\* one request of the client to a request-handling route of a service:
\* the limiter counts it when it is mounted on the path and answers 429
\* itself beyond max, otherwise the route's handler runs
LimiterRequest(service, path) ==
  /\ served[service] + rejected[service] < MaxRequests
  /\ IF UnderMount(path)
       THEN /\ hits' = [hits EXCEPT ![service] = @ + 1]
            /\ IF hits[service] + 1 > max
                 THEN /\ rejected' = [rejected EXCEPT ![service] = @ + 1]
                      /\ UNCHANGED served
                 ELSE /\ served' = [served EXCEPT ![service] = @ + 1]
                      /\ UNCHANGED rejected
       ELSE /\ served' = [served EXCEPT ![service] = @ + 1]
            /\ UNCHANGED <<hits, rejected>>
  /\ UNCHANGED <<bridgeVars, gatewayVars, endpointVars>>

\* windowMs have passed: the counts of the window are dropped
WindowExpires ==
  /\ \E s \in Services : served[s] + rejected[s] > 0
  /\ hits' = [s \in Services |-> 0]
  /\ served' = [s \in Services |-> 0]
  /\ rejected' = [s \in Services |-> 0]
  /\ UNCHANGED <<bridgeVars, gatewayVars, endpointVars>>


\* ------------------------------------------------------------------------
\* Specifications
\* ------------------------------------------------------------------------

Init == BridgeInit /\ GatewayInit /\ EndpointInit /\ LimiterInit

\* one chat request at a time, every kind of input and answer
Next ==
  \/ \E result \in FetchResults : StartServer(result)
  \/ \E r \in ChatReqs, m \in Messages, h \in Histories : ChatRequest(r, m, h)
  \/ \E r \in ChatReqs, result \in FetchResults : ToolsFetched(r, result)
  \/ \E r \in ChatReqs :
       \E data \in Replies(Len(modelCalls[r]), MaxRounds, Contents(Len(modelCalls[r])), Usages) :
         ClaudeResponse(r, data)
  \/ \E r \in ChatReqs, error \in ModelErrors : ModelCallFails(r, error)
  \/ \E r \in ChatReqs :
       /\ pc[r] = "awaitTool"
       /\ \E outcome \in ToolOutcomesOf(PendingBlock(r).name) : ToolCallSettles(r, outcome)
  \/ \E r \in ChatReqs :
       \E data \in Replies(Len(modelCalls[r]), MaxRounds, Contents(Len(modelCalls[r])), Usages) :
         FollowUpResponse(r, data)

\* concurrent chat requests, fewer kinds of input and answer
ConcurrentNext ==
  \/ \E result \in FetchResults : StartServer(result)
  \/ \E r \in RaceReqs, m \in RaceMessages, h \in RaceHistories : ChatRequest(r, m, h)
  \/ \E r \in RaceReqs, result \in FetchResults : ToolsFetched(r, result)
  \/ \E r \in RaceReqs :
       \E data \in Replies(Len(modelCalls[r]), MaxRaceRounds,
                           RaceContents(Len(modelCalls[r])), RaceUsages) :
         ClaudeResponse(r, data)
  \/ \E r \in RaceReqs, error \in RaceModelErrors : ModelCallFails(r, error)
  \/ \E r \in RaceReqs :
       /\ pc[r] = "awaitTool"
       /\ \E outcome \in RaceToolOutcomesOf(PendingBlock(r).name) : ToolCallSettles(r, outcome)
  \/ \E r \in RaceReqs :
       \E data \in Replies(Len(modelCalls[r]), MaxRaceRounds,
                           RaceContents(Len(modelCalls[r])), RaceUsages) :
         FollowUpResponse(r, data)

\* the Gateway serving a get_directions request
DirectionsNext ==
  \/ \E args \in DirBodies : GetDirections(TopLevelBody(args))
  \/ \E outcome \in GetOutcomes(GeojsonData) : GeojsonSettles(outcome)
  \/ \E outcome \in GetOutcomes(PolylineData) : PolylineSettles(outcome)

\* the Gateway serving one request to each kind of POST endpoint
EndpointsNext ==
  \/ \E b \in DirRequestBodies : GetDirections(b)
  \/ \E outcome \in GetOutcomes(GeojsonData) : GeojsonSettles(outcome)
  \/ \E outcome \in GetOutcomes(PolylineData) : PolylineSettles(outcome)
  \/ \E b \in ForwardBodies : GeocodeForwardRequest(b)
  \/ \E b \in ReverseBodies : GeocodeReverseRequest(b)
  \/ \E b \in MatrixBodies : GetMatrixRequest(b)
  \/ \E b \in StaticImageBodies : GetStaticImageRequest(b)
  \/ \E b \in RouteMapBodies : GetRouteMapRequest(b)
  \/ \E outcome \in GetOutcomes(EndpointData(epName)) : UpstreamGetSettles(outcome)

\* one client sending requests to the request-handling routes of both
\* services
LimiterNext ==
  \/ \E service \in Services : \E path \in RequestRoutes(service) : LimiterRequest(service, path)
  \/ WindowExpires

Spec == Init /\ [][Next]_vars
RaceSpec == Init /\ [][ConcurrentNext]_vars
GatewaySpec == Init /\ [][DirectionsNext]_vars
EndpointsSpec == Init /\ [][EndpointsNext]_vars
LimiterSpec == Init /\ [][LimiterNext]_vars

\* ------------------------------------------------------------------------
\* Properties
\* ------------------------------------------------------------------------

Last(seq) == seq[Len(seq)]

\* a Gateway POST of request r fails in this step
ToolFailureStep(r) ==
  /\ Len(postOutcomes'[r]) = Len(postOutcomes[r]) + 1
  /\ Last(postOutcomes'[r]).kind # "ok"

\* C1: a failing Gateway POST of a tool round (network error, timeout, 404 for
\* an unknown tool, 401, 429) never reaches the catch block and sends no
\* response: it appends a tool_result with the block's id and is_error true,
\* and the handler goes on with the next tool_use block or, after the last
\* one, with the next model call.
C1_ToolFailureNotFatal ==
  [][\A r \in AllReqs : ToolFailureStep(r) =>
       LET content == finalResponse[r].content
           block == content[blockIdx[r]]
           added == Last(toolResults'[r])
           later == {j \in (blockIdx[r] + 1)..Len(content) : content[j].type = "tool_use"}
       IN /\ Len(toolResults'[r]) = Len(toolResults[r]) + 1
          /\ SubSeq(toolResults'[r], 1, Len(toolResults[r])) = toolResults[r]
          /\ added.type = "tool_result"
          /\ added.tool_use_id = block.id
          /\ added.is_error = TRUE
          /\ catches'[r] = catches[r]
          /\ responses'[r] = responses[r]
          /\ IF later # {}
               THEN /\ pc'[r] = "awaitTool"
                    /\ blockIdx'[r] \in later
                    /\ \A j \in later : blockIdx'[r] <= j
                    /\ gatewayPosts'[r] =
                         Append(gatewayPosts[r], GatewayPost(content[blockIdx'[r]]))
               ELSE /\ pc'[r] = "awaitFollowUp"
                    /\ Len(modelCalls'[r]) = Len(modelCalls[r]) + 1
                    /\ gatewayPosts'[r] = gatewayPosts[r]]_vars

\* both POSTs of a two-block round failed and the follow-up call is under way
C1_Witness ==
  \E r \in AllReqs :
    /\ pc[r] = "awaitFollowUp"
    /\ Len(toolResults[r]) = 2
    /\ toolResults[r][1].is_error
    /\ toolResults[r][2].is_error
    /\ responses[r] = <<>>

\* a model call of request r fails in this step
ModelFailureStep(r) ==
  /\ Len(modelReplies'[r]) = Len(modelReplies[r]) + 1
  /\ ~Last(modelReplies'[r]).ok

\* C2: a failing model call (first or follow-up) ends the request at once:
\* one response, 401 for a 401, 429 for a 429, else 500 'Failed to process
\* chat message', never a 200, and no model or Gateway call after it.
C2_ModelFailureEndsRequest ==
  [][\A r \in AllReqs :
       /\ ModelFailureStep(r) =>
            LET error == Last(modelReplies'[r]).error
                sent == Last(responses'[r])
            IN /\ pc'[r] = "done"
               /\ Len(responses'[r]) = 1
               /\ responses[r] = <<>>
               /\ IF error.kind = "status" /\ error.status = 401 THEN sent.status = 401
                  ELSE IF error.kind = "status" /\ error.status = 429 THEN sent.status = 429
                  ELSE sent = [status |-> 500, error |-> "Failed to process chat message"]
               /\ modelCalls'[r] = modelCalls[r]
               /\ gatewayPosts'[r] = gatewayPosts[r]
       /\ pc[r] = "done" =>
            /\ pc'[r] = "done"
            /\ responses'[r] = responses[r]
            /\ modelCalls'[r] = modelCalls[r]
            /\ gatewayPosts'[r] = gatewayPosts[r]]_vars

\* a follow-up call was answered 429 and the client got the 429
C2_Witness ==
  \E r \in AllReqs :
    /\ Len(modelReplies[r]) = 2
    /\ modelReplies[r][1].ok
    /\ ~modelReplies[r][2].ok
    /\ modelReplies[r][2].error = HttpError(429)
    /\ responses[r] = <<[status |-> 429, error |-> "Rate limit exceeded"]>>

\* request r was answered 200
Succeeded(r) == responses[r] # <<>> /\ responses[r][1].status = 200

\* the model responses of request r that carry a tool_use block
ToolRounds(r) ==
  {i \in 1..Len(modelReplies[r]) :
     modelReplies[r][i].ok /\ HasToolUse(modelReplies[r][i].data.content)}

\* C3: a chat request answered 200 after n consecutive model responses with
\* tool_use blocks made exactly n + 1 model calls, and its conversationHistory
\* is the input history, the user message and the final assistant content:
\* input length + 2, none of the tool-use or tool-result messages.
C3_SuccessfulChatShape ==
  \A r \in AllReqs : Succeeded(r) =>
    LET n == Cardinality(ToolRounds(r))
        out == responses[r][1]
        final == Last(modelReplies[r]).data.content
    IN /\ ToolRounds(r) = 1..n
       /\ Len(modelReplies[r]) = n + 1
       /\ Len(modelCalls[r]) = n + 1
       /\ out.conversationHistory =
            body[r].conversationHistory \o
              <<[role |-> "user", content |-> body[r].message],
                [role |-> "assistant", content |-> [blocks |-> final]]>>
       /\ Len(out.conversationHistory) = Len(body[r].conversationHistory) + 2

\* a 200 after two tool rounds on a non-empty input history
C3_Witness ==
  \E r \in AllReqs :
    /\ Succeeded(r)
    /\ Cardinality(ToolRounds(r)) = 2
    /\ Len(body[r].conversationHistory) = 2

\* C4: a chat body whose message is missing, empty or not a string is
\* answered 400 'Message is required and must be a string' with no catalog
\* fetch, no model call and no Gateway call, and the tool cache is untouched.
C4_InvalidMessageRejectedFirst ==
  /\ [](\A r \in AllReqs :
          (pc[r] # "idle" /\ (body[r].message.t # "string" \/ body[r].message.v = "")) =>
            /\ pc[r] = "done"
            /\ responses[r] =
                 <<[status |-> 400, error |-> "Message is required and must be a string"]>>
            /\ modelCalls[r] = <<>>
            /\ gatewayPosts[r] = <<>>
            /\ \A i \in 1..Len(fetches) : fetches[i].by # r)
  /\ [][\A r \in AllReqs : (pc[r] = "idle" /\ pc'[r] = "done") =>
          /\ availableTools' = availableTools
          /\ cacheWrites' = cacheWrites
          /\ fetches' = fetches]_vars

\* a non-string message was answered 400 while the cache was empty
C4_Witness ==
  \E r \in AllReqs :
    /\ body[r].message = NumMsg
    /\ pc[r] = "done"
    /\ responses[r][1].status = 400
    /\ availableTools = <<>>

\* C5: a 200 is sent only after a model response without tool_use block, with
\* that response's content as its response field; and while the latest model
\* response carries a tool_use block the handler is in a tool round or in the
\* follow-up call, with no response sent.
C5_RespondOnlyWithoutToolUse ==
  \A r \in AllReqs :
    /\ Succeeded(r) =>
         /\ Last(modelReplies[r]).ok
         /\ ~HasToolUse(Last(modelReplies[r]).data.content)
         /\ responses[r][1].response = Last(modelReplies[r]).data.content
    /\ (/\ modelReplies[r] # <<>>
        /\ Last(modelReplies[r]).ok
        /\ HasToolUse(Last(modelReplies[r]).data.content)) =>
         /\ responses[r] = <<>>
         /\ pc[r] \in {"awaitTool", "awaitFollowUp"}

\* C6: every model call of a chat request carries the tool catalog together
\* with tool_choice auto when the tool cache is non-empty at the time of the
\* call, and neither of them when it is empty.
C6_ToolsWithAutoChoiceIffCached ==
  \A r \in AllReqs : \A i \in 1..Len(modelCalls[r]) :
    LET call == modelCalls[r][i]
        fields == DOMAIN call.payload
    IN IF call.cache # <<>>
         THEN /\ "tools" \in fields
              /\ call.payload.tools = call.cache
              /\ "tool_choice" \in fields
              /\ call.payload.tool_choice = "auto"
         ELSE /\ "tools" \notin fields
              /\ "tool_choice" \notin fields

\* a counter of a model response, a missing one counting 0
Counted(x) == IF x.k = "num" THEN x.n ELSE 0

RECURSIVE SumTokens(_, _)
\* the sum of one counter over the first k model responses of a request
SumTokens(replies, field) ==
  IF replies = <<>> THEN 0
  ELSE LET head == replies[Len(replies)]
           rest == SubSeq(replies, 1, Len(replies) - 1)
       IN SumTokens(rest, field) +
            (IF head.ok
               THEN (IF field = "input_tokens" THEN Counted(head.data.usage.input_tokens)
                     ELSE Counted(head.data.usage.output_tokens))
               ELSE 0)

\* C7: the usage of a 200 response has input_tokens and output_tokens equal to
\* the sums of the counters over every model call of the request, a missing
\* usage object or counter counting 0.
C7_UsageIsSumOverCalls ==
  \A r \in AllReqs : Succeeded(r) =>
    /\ responses[r][1].usage.input_tokens = Num(SumTokens(modelReplies[r], "input_tokens"))
    /\ responses[r][1].usage.output_tokens = Num(SumTokens(modelReplies[r], "output_tokens"))

\* the catalog as the bridge keeps it
CachedCatalog ==
  [i \in 1..Len(ToolNames) |->
     [name |-> ToolNames[i], description |-> tools[i].description,
      input_schema |-> tools[i].inputSchema]]

\* C8 as stated: once the cache is non-empty, no later completion of
\* initializeMCPTools assigns it again.
C8_NoWriteOnceFilled ==
  [][availableTools # <<>> => cacheWrites' = cacheWrites]_vars

\* C8 as amended: a catalog fetch is started only while the cache is empty; a
\* fetch started then may still assign the cache after another fetch has
\* filled it, but every assignment stores the same catalog: once non-empty the
\* cache never changes, and it ends as if only one request had fetched.
C8_CacheWrittenIdempotently ==
  /\ [](availableTools \in {<<>>, CachedCatalog})
  /\ [](\A i \in 1..Len(fetches) : fetches[i].cacheEmpty)
  /\ [](cacheWrites <= Len(fetches))
  /\ [](cacheWrites > 0 => availableTools = CachedCatalog)
  /\ [][availableTools # <<>> => availableTools' = availableTools]_vars

\* two fetches both assigned the cache
C8_Witness == cacheWrites = 2 /\ availableTools = CachedCatalog

\* the awaited fetch of request r fails in this step
FetchFailureStep(r) ==
  /\ pc[r] = "awaitTools"
  /\ pc'[r] # "awaitTools"
  /\ cacheWrites' = cacheWrites

\* C9 as stated: a failed fetch of a chat request leaves the cache empty and
\* the request goes on to the model call without tools.
C9_FailedFetchLeavesCacheEmpty ==
  [][\A r \in AllReqs : FetchFailureStep(r) =>
       /\ availableTools' = <<>>
       /\ "tools" \notin DOMAIN Last(modelCalls'[r]).payload]_vars

\* C9 as amended: a valid chat request starts a catalog fetch exactly when the
\* cache is empty; a failed fetch is swallowed and leaves the cache as it is
\* (empty at startup; in a chat request empty unless a concurrent request's
\* fetch filled it meanwhile), sends no error response and does not keep the
\* server from listening; the request goes on to its first model call, which
\* carries tools exactly when the cache is non-empty then.
C9_FetchIffEmptyAndFailureSwallowed ==
  /\ [][\A r \in AllReqs :
          (pc[r] = "idle" /\ pc'[r] # "idle" /\ body'[r].message.t = "string"
             /\ body'[r].message.v # "") =>
            IF availableTools = <<>>
              THEN /\ pc'[r] = "awaitTools"
                   /\ fetches' = Append(fetches, [by |-> r, cacheEmpty |-> TRUE])
                   /\ modelCalls'[r] = <<>>
              ELSE /\ pc'[r] = "awaitClaude"
                   /\ fetches' = fetches
                   /\ Len(modelCalls'[r]) = 1]_vars
  /\ [][\A r \in AllReqs : FetchFailureStep(r) =>
          /\ availableTools' = availableTools
          /\ responses'[r] = <<>>
          /\ catches'[r] = <<>>
          /\ pc'[r] = "awaitClaude"
          /\ Len(modelCalls'[r]) = 1
          /\ ("tools" \in DOMAIN modelCalls'[r][1].payload) <=> (availableTools # <<>>)]_vars
  /\ [][server = "starting" /\ server' # server =>
          /\ server' = "listening"
          /\ responses' = responses
          /\ cacheWrites' = cacheWrites => availableTools' = <<>>]_vars

\* two requests fetched, one fetch failed after the other had filled the
\* cache, and both went on to the model call with tools
C9_Witness ==
  /\ cacheWrites = 1
  /\ Len(fetches) = 3
  /\ \A r \in RaceReqs :
       /\ pc[r] = "awaitClaude"
       /\ "tools" \in DOMAIN modelCalls[r][1].payload

\* C10 as stated: a response is sent only after both GETs have completed.
C10_RespondsAfterBothCompleted ==
  (Len(upstreamGets) = 2 /\ dirResponses # <<>>) =>
    /\ geojsonGet.state \in {"resolved", "rejected"}
    /\ polylineGet.state \in {"resolved", "rejected"}

\* C10 as amended: for a body with a coordinates array get_directions issues
\* exactly two GETs, geojson with steps and polyline without, in the same
\* turn; a success response is sent only after both have resolved, carries
\* routes, waypoints and code of the geojson call, and carries polyline (the
\* first route's geometry of the polyline call) exactly when that call
\* returned at least one route; when either call fails the response is 500
\* {success:false}, sent at the first failure without waiting for the other
\* call; exactly one response is sent, in either completion order.
C10_DirectionsJoin ==
  /\ Len(dirResponses) <= 1
  /\ dirPc = "done" <=> Len(dirResponses) = 1
  /\ Len(upstreamGets) \in {0, 2}
  /\ (dirPc # "idle" /\ dirArgs.coordinates.defined) =>
       /\ Len(upstreamGets) = 2
       /\ upstreamGets[1].geometries = "geojson"
       /\ upstreamGets[1].steps = "true"
       /\ upstreamGets[2].geometries = "polyline"
       /\ upstreamGets[2].steps = "false"
       /\ upstreamGets[1].coordinateString = dirArgs.coordinates.list
       /\ upstreamGets[2].coordinateString = dirArgs.coordinates.list
  /\ (dirResponses # <<>> /\ dirResponses[1].status = 200) =>
       /\ geojsonGet.state = "resolved"
       /\ polylineGet.state = "resolved"
       /\ dirResponses[1].success = TRUE
       /\ dirResponses[1].routes = geojsonGet.data.routes
       /\ dirResponses[1].waypoints = geojsonGet.data.waypoints
       /\ dirResponses[1].code = geojsonGet.data.code
       /\ ("polyline" \in DOMAIN dirResponses[1]) <=>
            (polylineGet.data.hasRoutes /\ Len(polylineGet.data.routes) >= 1)
       /\ ("polyline" \in DOMAIN dirResponses[1]) =>
            dirResponses[1].polyline = polylineGet.data.routes[1].geometry
  /\ (geojsonGet.state = "rejected" \/ polylineGet.state = "rejected") =>
       /\ Len(dirResponses) = 1
       /\ dirResponses[1].status = 500
       /\ dirResponses[1].success = FALSE
  /\ (geojsonGet.state = "resolved" /\ polylineGet.state = "resolved") =>
       (dirResponses # <<>> /\ dirResponses[1].status = 200)

\* both GETs failed, the polyline one first, and one response was sent
C10_Witness ==
  /\ geojsonGet.state = "rejected"
  /\ polylineGet.state = "rejected"
  /\ geojsonGet.error.kind = "network"
  /\ polylineGet.error.upstreamMessage = "Coordinate is invalid"
  /\ dirResponses =
       <<[status |-> 500, success |-> FALSE, error |-> <<"Coordinate is invalid", 0>>]>>

\* the provider's message when the failed call carried one, otherwise the
\* message of the exception
ProviderMessageOrLocal(error) ==
  IF error.upstreamMessage # "" THEN <<error.upstreamMessage, 0>>
  ELSE ErrorMessage(error)

FailureResponse(error) ==
  [status |-> 500, success |-> FALSE, error |-> ProviderMessageOrLocal(error)]

\* get_directions has failed: a missing coordinates field or a rejected GET
DirectionsFailed ==
  \/ dirPc # "idle" /\ ~dirArgs.coordinates.defined
  \/ geojsonGet.state = "rejected"
  \/ polylineGet.state = "rejected"

\* C11: on every Gateway POST endpoint a failure while handling the
\* request (a rejected upstream call or an exception of the handler's own
\* code on a malformed or missing field) is answered with HTTP 500 and
\* {success:false, error}, error being the provider's message when the
\* upstream answer carried one and the exception's message otherwise, and
\* no success:true response is sent for that request.
C11_FailureAnswered500 ==
  /\ Len(epErrors) <= 1
  /\ Len(epResponses) <= 1
  /\ epErrors # <<>> => epResponses = <<FailureResponse(epErrors[1])>>
  /\ (epPc = "done" /\ epErrors = <<>>) =>
       (Len(epResponses) = 1 /\ epResponses[1].success /\ epResponses[1].status = 200)
  /\ (epName \in {"get_route_map", "get_matrix"} /\ epArgs.coordinates.k # "arr") =>
       epErrors = <<LocalError>>
  /\ (epName = "geocode_forward" /\ epArgs.limit.k = "null") => epErrors = <<LocalError>>
  /\ (epName = "get_static_image" /\ epArgs.markers.k = "null") => epErrors = <<LocalError>>
  /\ DirectionsFailed =>
       /\ Len(dirResponses) = 1
       /\ \/ ~dirArgs.coordinates.defined /\ dirResponses[1] = FailureResponse(LocalError)
          \/ geojsonGet.state = "rejected"
               /\ dirResponses[1] = FailureResponse(geojsonGet.error)
          \/ polylineGet.state = "rejected"
               /\ dirResponses[1] = FailureResponse(polylineGet.error)

\* an upstream failure with a provider message on one endpoint and a local
\* exception on another have both been answered
C11_Witness ==
  /\ epName = "geocode_reverse"
  /\ epErrors = <<UpstreamError("status", 422, "Coordinate is invalid")>>
  /\ epResponses[1].error = <<"Coordinate is invalid", 0>>
  /\ dirPc = "done"
  /\ ~dirArgs.coordinates.defined
  /\ Len(dirResponses) = 1

\* reading field by field: the value inside arguments when the field is
\* given there, otherwise the value at the top level
FieldWise(b) ==
  [f \in FieldNames |->
     IF b.hasArguments /\ b.arguments[f].k # "undefined"
       THEN b.arguments[f] ELSE b.top[f]]

DirFieldWise(b) ==
  [coordinates |-> IF b.hasArguments /\ b.arguments.coordinates.defined
                     THEN b.arguments.coordinates ELSE b.top.coordinates,
   profile |-> IF b.hasArguments /\ b.arguments.profile # "undefined"
                 THEN b.arguments.profile ELSE b.top.profile,
   steps |-> IF b.hasArguments /\ b.arguments.steps # "undefined"
               THEN b.arguments.steps ELSE b.top.steps,
   overview |-> IF b.hasArguments /\ b.arguments.overview # "undefined"
                  THEN b.arguments.overview ELSE b.top.overview]

\* C12 as stated: every endpoint uses, for each field, the value inside
\* arguments when given there and the top-level value otherwise, so that a
\* field given only at the top level is still used.
C12_FieldGivenAtTopLevelAccepted ==
  /\ epPc # "idle" => epArgs = FieldWise(epBody)
  /\ dirPc # "idle" => dirArgs = DirFieldWise(dirBody)

\* the object the fields are read from
Chosen(b) == IF b.hasArguments THEN b.arguments ELSE b.top

\* C12 (amended): every endpoint reads all its fields from body.arguments
\* when the body has a (truthy) arguments property and all of them from
\* the top level otherwise; the choice is made once for the body, so next
\* to arguments the top-level fields are ignored, also those given only
\* there. The URL requested and the answer are built from the chosen
\* object.
C12_ArgumentsOrTopLevel ==
  /\ epPc # "idle" =>
       LET from == Chosen(epBody)
       IN /\ epArgs = from
          /\ (epName = "geocode_forward" /\ epGets # <<>>) =>
               /\ epGets[1].path = EncodeURIComponent(from.query)
               /\ epGets[1].limit = toString(DefaultTo(from.limit, Num(5)))
          /\ (epName = "geocode_reverse" /\ epGets # <<>>) =>
               epGets[1].path = <<toString(from.longitude), toString(from.latitude)>>
          /\ (epName = "get_matrix" /\ epGets # <<>>) =>
               /\ epGets[1].profile = DefaultTo(from.profile, Str("driving"))
               /\ epGets[1].coordinateString = from.coordinates.a
          /\ (epName = "get_static_image" /\ epErrors = <<>>) =>
               /\ epResponses[1].width = DefaultTo(from.width, Num(600))
               /\ (from.bbox.k = "undefined" =>
                     \A i \in 1..Len(epResponses[1].image_url) :
                       epResponses[1].image_url[i].seg # "bbox")
          /\ (epName = "get_route_map" /\ epErrors = <<>>) =>
               /\ epResponses[1].width = DefaultTo(from.width, Num(800))
               /\ epResponses[1].start_coordinates = from.coordinates.a[1]
  /\ dirPc # "idle" =>
       LET from == Chosen(dirBody)
       IN /\ dirArgs = from
          /\ upstreamGets # <<>> =>
               /\ upstreamGets[1].coordinateString = from.coordinates.list
               /\ upstreamGets[1].profile = Default(from.profile, "driving")

\* a body with arguments and other top-level fields was served: the
\* top-level limit was not used
C12_Witness ==
  /\ epName = "geocode_forward"
  /\ epBody = ArgumentsBody(Berlin, With(Paris, "limit", Num(3)))
  /\ Len(epGets) = 1
  /\ epGets[1].path = EncodeURIComponent(Str("Berlin"))
  /\ epGets[1].limit = toString(Num(5))

\* the viewport segments of a static image URL
Viewports(url) == SelectSeq(url, LAMBDA segment : segment.seg \in {"bbox", "center"})

\* a field that was given (neither missing nor null)
Given(v) == v.k \notin {"undefined", "null"}

\* C13: in get_static_image the viewport segment of image_url is the
\* bracketed bbox whenever bbox is given (also next to center and zoom),
\* center and zoom when bbox is absent and both are given (zoom 0
\* included), and is missing when bbox, center and zoom are all omitted;
\* the URL always ends with the size segment and the access token, and
\* the handler issues no upstream GET.
C13_StaticImageViewport ==
  epName = "get_static_image" =>
    /\ epGets = <<>>
    /\ epErrors = <<>> =>
         LET url == epResponses[1].image_url
             n == Len(url)
         IN /\ epArgs.bbox.k = "arr" =>
                 Viewports(url) = <<[seg |-> "bbox", bbox |-> epArgs.bbox.a]>>
            /\ (~Given(epArgs.bbox) /\ epArgs.center.k = "arr" /\ epArgs.zoom.k = "num") =>
                 Viewports(url) = <<[seg |-> "center", center |-> epArgs.center.a,
                                     zoom |-> epArgs.zoom]>>
            /\ (~Given(epArgs.bbox) /\ ~Given(epArgs.center) /\ ~Given(epArgs.zoom)) =>
                 Viewports(url) = <<>>
            /\ n >= 3
            /\ url[n] = [seg |-> "access_token"]
            /\ url[n - 1] = [seg |-> "size",
                             width |-> DefaultTo(epArgs.width, Num(600)),
                             height |-> DefaultTo(epArgs.height, Num(400))]
            /\ epResponses[1].status = 200

\* an image was requested with bbox next to center and zoom
C13_Witness ==
  /\ epName = "get_static_image"
  /\ epArgs.bbox.k = "arr"
  /\ epArgs.center.k = "arr"
  /\ epArgs.zoom = Num(12)
  /\ Len(epResponses) = 1
  /\ Viewports(epResponses[1].image_url) = <<[seg |-> "bbox", bbox |-> <<-74, 40, -73, 41>>]>>

\* C14: in get_route_map the bounding_box is the min/max longitude and
\* latitude of the coordinates widened on each side by a tenth of the
\* span ([[-74,40],[-73,41]] gives [-74.1,39.9,-72.9,41.1]); for every
\* non-empty list it contains every coordinate and is ordered, and the
\* start and end pins are the first and the last coordinate. The box is
\* in tenths of a degree.
C14_RouteMapBoundingBox ==
  (epName = "get_route_map" /\ epArgs.coordinates.k = "arr"
     /\ Len(epArgs.coordinates.a) > 0) =>
    LET c == epArgs.coordinates.a
        r == epResponses[1]
        bb == r.bounding_box
        pins == r.image_url[2].items
    IN /\ Len(epResponses) = 1
       /\ r.success
       /\ \A i \in 1..Len(c) :
            /\ bb[1] <= 10 * c[i][1] /\ 10 * c[i][1] <= bb[3]
            /\ bb[2] <= 10 * c[i][2] /\ 10 * c[i][2] <= bb[4]
       /\ bb[1] <= bb[3]
       /\ bb[2] <= bb[4]
       /\ \E lo, hi \in 1..Len(c) :
            /\ \A i \in 1..Len(c) : c[lo][1] <= c[i][1] /\ c[i][1] <= c[hi][1]
            /\ bb[1] = 10 * c[lo][1] - (c[hi][1] - c[lo][1])
            /\ bb[3] = 10 * c[hi][1] + (c[hi][1] - c[lo][1])
       /\ \E lo, hi \in 1..Len(c) :
            /\ \A i \in 1..Len(c) : c[lo][2] <= c[i][2] /\ c[i][2] <= c[hi][2]
            /\ bb[2] = 10 * c[lo][2] - (c[hi][2] - c[lo][2])
            /\ bb[4] = 10 * c[hi][2] + (c[hi][2] - c[lo][2])
       /\ c = <<<<-74, 40>>, <<-73, 41>>>> => bb = <<-741, 399, -729, 411>>
       /\ r.image_url[3] = [seg |-> "bbox", bbox |-> bb]
       /\ r.start_coordinates = c[1]
       /\ r.end_coordinates = c[Len(c)]
       /\ pins[Len(pins) - 1].at = c[1]
       /\ pins[Len(pins)].at = c[Len(c)]

\* a route map of three coordinates whose first and last are not the
\* extremes
C14_Witness ==
  /\ epName = "get_route_map"
  /\ epArgs.coordinates = Arr(<<<<-73, 41>>, <<-75, 39>>, <<-74, 40>>>>)
  /\ Len(epResponses) = 1
  /\ epResponses[1].bounding_box = <<-752, 388, -728, 412>>

\* C15: on the Gateway as well as on the Bridge the request-handling
\* routes serve at most 100 requests of a client IP within one window;
\* the requests beyond that are answered by the limiter and do not reach
\* a handler.
C15_BothServicesLimited ==
  \A s \in Services :
    /\ served[s] <= max
    /\ served[s] + rejected[s] > max => rejected[s] = served[s] + rejected[s] - max

\* the tool_use blocks of a model response, in order
ToolUses(content) == SelectSeq(content, LAMBDA block : block.type = "tool_use")

\* the POST request that belongs to a tool_use block
PostFor(block) == [endpoint |-> block.name, arguments |-> block.input, id |-> block.id]

\* C16: within a tool round the Gateway POSTs go out one after the other
\* in the order of the tool_use blocks: a POST is issued only when the
\* previous one has completed, each block gets exactly one POST to the
\* endpoint of its name with {arguments: block.input}, the results hold
\* one tool_result per block in block order with the block's id, and the
\* next model call is issued only when all results are collected.
C16_ToolCallsSequentialInOrder ==
  \A r \in ChatReqs :
    LET uses == ToolUses(finalResponse[r].content)
        posts == gatewayPosts[r]
        done == Len(toolResults[r])
    IN /\ Len(posts) = Len(postOutcomes[r]) + (IF pc[r] = "awaitTool" THEN 1 ELSE 0)
       /\ pc[r] = "awaitTool" =>
            /\ done < Len(uses)
            /\ Len(posts) >= done + 1
            /\ \A i \in 1..(done + 1) : posts[Len(posts) - (done + 1) + i] = PostFor(uses[i])
            /\ \A i \in 1..done :
                 /\ toolResults[r][i].type = "tool_result"
                 /\ toolResults[r][i].tool_use_id = uses[i].id
            /\ Len(modelCalls[r]) = Len(modelReplies[r])
       /\ (pc[r] = "awaitFollowUp" /\ Len(modelCalls[r]) = Len(modelReplies[r]) + 1) =>
            /\ Len(uses) > 0
            /\ done = Len(uses)
            /\ Len(posts) >= done
            /\ \A i \in 1..done :
                 /\ posts[Len(posts) - done + i] = PostFor(uses[i])
                 /\ toolResults[r][i].type = "tool_result"
                 /\ toolResults[r][i].tool_use_id = uses[i].id
            /\ Last(Last(modelCalls[r]).payload.messages) = UserMsg([blocks |-> toolResults[r]])

\* a round of two tool_use blocks is complete, the first POST having
\* failed, and the follow-up model call is out
C16_Witness ==
  /\ pc["r1"] = "awaitFollowUp"
  /\ Len(ToolUses(finalResponse["r1"].content)) = 2
  /\ Len(toolResults["r1"]) = 2
  /\ postOutcomes["r1"][1].kind # "ok"
  /\ Len(gatewayPosts["r1"]) >= 2

\* every model response of request r so far asked for tools
AlwaysAskedForTools(r) ==
  /\ modelReplies[r] # <<>>
  /\ \A i \in 1..Len(modelReplies[r]) :
       modelReplies[r][i].ok /\ HasToolUse(modelReplies[r][i].data.content)

\* C17: the tool loop has no round cap; a model that asks for tools in
\* every response keeps the request running with no response sent: as
\* long as every model response of an accepted request carried a tool_use
\* block and no model call failed, the request has not been answered.
C17_NoResponseWhileToolsRequested ==
  \A r \in ChatReqs : AlwaysAskedForTools(r) => responses[r] = <<>>

\* C18: a chat request gets at most one response on every path and
\* exactly one when its handler has finished; the 400, the 200 and the
\* 401/429/500 paths exclude each other, and a response once sent is
\* neither followed nor replaced by another, whatever the other requests
\* do in between.
C18_OneResponsePerRequest ==
  /\ [](\A r \in RaceReqs :
         /\ Len(responses[r]) <= 1
         /\ (pc[r] = "done") <=> (Len(responses[r]) = 1)
         /\ Len(responses[r]) = 1 =>
              LET status == responses[r][1].status
              IN /\ status \in {200, 400, 401, 429, 500}
                 /\ status = 400 <=> (InvalidMessage(body[r].message) /\ modelCalls[r] = <<>>)
                 /\ status \in {401, 429, 500} <=> Len(catches[r]) = 1
                 /\ status = 200 <=>
                      (catches[r] = <<>> /\ modelReplies[r] # <<>>
                         /\ Last(modelReplies[r]).ok
                         /\ ~HasToolUse(Last(modelReplies[r]).data.content)))
  /\ [][\A r \in RaceReqs : responses[r] # <<>> => responses'[r] = responses[r]]_vars

\* two requests were in flight together and each got its one response,
\* one by the catch block and one by the success path
C18_Witness ==
  /\ pc["r1"] = "done"
  /\ pc["r2"] = "done"
  /\ Len(responses["r1"]) = 1
  /\ Len(responses["r2"]) = 1
  /\ responses["r1"][1].status = 200
  /\ responses["r2"][1].status \in {401, 429, 500}
  /\ Len(postOutcomes["r1"]) > 0

====
